---- MODULE Spec2Model ----
(***************************************************************************)
(* A model of the privacy processing engine of globe-2                     *)
(* (app/services/privacy_processor.py): PrivacyProcessor.process_data and  *)
(* the eight transforms it dispatches to, run by a caller that owns the    *)
(* input record.                                                           *)
(*                                                                         *)
(* Python objects live in a heap (a sequence of dicts, an address is an    *)
(* index), so that dict.copy(), in-place assignment and aliasing are what  *)
(* the code makes them.  Python values are tagged records.                 *)
(*                                                                         *)
(* Spec:      one call on a record of the caller's, at any level, and the  *)
(*            returned record fed back into process_data.                  *)
(* SpecKeyed: several calls on records of the caller's at the levels       *)
(*            Tokenized and Pseudonymized.                                 *)
(***************************************************************************)
EXTENDS Integers, Sequences, FiniteSets, TLC

VARIABLES
    key,      \* self.encryption_key, set by the constructor
    heap,     \* the dict objects: heap[a] is the dict at address a
    data,     \* the caller's argument `data` (a reference, or a non-dict value)
    level,    \* the caller's argument `privacy_level` (an enum member)
    fields,   \* the caller's argument `sensitive_fields`
    orig,     \* history: the contents of the caller's record when the call began
    result,   \* what the call did: nothing yet, returned a reference, raised
    pc,       \* "idle", "called" (process_data entered), "done"
    calls,    \* calls begun by the caller on a record of its own
    feeds,    \* calls begun on the record a previous call returned
    issued,   \* history: what the keyed deterministic transforms returned in
              \* the latest call and in the call before it
    tasks,    \* the concurrent callers of process_data: each one's arguments,
              \* locals and position
    np_random,  \* the state of numpy's module-level generator: the calls that
              \* have advanced it, in order
    request,  \* the POST /batch request being handled: its Content-Encoding
              \* header and its body
    response, \* what the handler answered: the status code and the detail
    events,    \* the events collection of the database: the event ids stored
    sessions, \* the sessions collection: the documents of one session id, by
              \* the form their session_id is stored in (Binary UUID or str)
    patches,   \* the PATCH /sessions/{session_id} requests: each one's position,
              \* what it read and what it was answered
    storage_instance, \* _storage_instance of the factory module: None or the
                      \* storage that get_storage constructed
    storage_type,     \* settings.STORAGE_TYPE
    storage_log,       \* since the last reset_storage: the storages constructed,
                      \* the storages returned, how the last call ended
    mongo,    \* the MongoDB object: whether self.client is set and whether it
              \* is connected (ping answered, self.db set, indexes created)
    connect,   \* the call of connect_to_database: its arguments, its position,
              \* the loop variable and what it has done so far
    bucket    \* the last application of a default generalization rule: the
              \* field, the value and what the rule returned

\* the variables of one caller and its processor
callerVars == <<key, heap, data, level, fields, orig, result, pc, calls, feeds, issued>>

\* the variables of the concurrent callers
concVars == <<tasks, np_random>>

\* the variables of POST /batch
batchVars == <<request, response, events>>

\* the variables of PATCH /sessions/{session_id}
sessVars == <<sessions, patches>>

\* the variables of the storage factory
factVars == <<storage_instance, storage_type, storage_log>>

\* the variables of MongoDB.connect_to_database
mongoVars == <<mongo, connect>>

\* the variables of the rule applications
ruleVars == <<bucket>>

\* what the concurrent callers leave alone, besides the caller's variables
outsideConc == <<batchVars, sessVars, factVars, mongoVars, ruleVars>>

\* what POST /batch leaves alone
outsideBatch == <<callerVars, concVars, sessVars, factVars, mongoVars, ruleVars>>

\* what PATCH /sessions/{session_id} leaves alone
outsideSess == <<callerVars, concVars, batchVars, factVars, mongoVars, ruleVars>>

\* what the storage factory leaves alone
outsideFact == <<callerVars, concVars, batchVars, sessVars, mongoVars, ruleVars>>

\* what MongoDB.connect_to_database leaves alone
outsideMongo == <<callerVars, concVars, batchVars, sessVars, factVars, ruleVars>>

\* what the rule applications leaves alone
outsideRule == <<callerVars, concVars, batchVars, sessVars, factVars, mongoVars>>

\* what the specifications of single calls leave alone
others == <<concVars, batchVars, sessVars, factVars, mongoVars, ruleVars>>

vars == <<callerVars, others>>

\* no concurrent caller exists, the generator has not been used
ConcIdle == tasks = <<>> /\ np_random = <<>>

\* no request has come in, the events collection is empty
BatchIdle ==
    /\ request = [kind |-> "none"]
    /\ response = [kind |-> "none"]
    /\ events = <<>>

\* the sessions collection is empty, no PATCH request exists
SessIdle ==
    /\ sessions = <<>>
    /\ patches = <<>>

\* no storage is cached, nothing has been asked of the factory
FactIdle ==
    /\ storage_instance = [t |-> "none"]
    /\ storage_type = "supabase"
    /\ storage_log = [made |-> 0, got |-> {}, last |-> "none", invalid |-> FALSE, total |-> 0]

\* the MongoDB object as constructed, connect_to_database not called
MongoIdle ==
    /\ mongo = [client |-> FALSE, connected |-> FALSE]
    /\ connect = [pc |-> "idle"]

\* no rule has been applied
RuleIdle ==
    bucket = [field |-> "none"]

OthersIdle == ConcIdle /\ BatchIdle /\ SessIdle /\ FactIdle /\ MongoIdle /\ RuleIdle

----------------------------------------------------------------------------
(* Bounds of the model *)

\* the ages the rules are applied to lie in -MaxAge .. MaxAge
MaxAge == 45

\* the largest max_retries connect_to_database is called with
MaxRetries == 4

\* the storages the factory constructs in one behaviour
MaxInstances == 3

MaxFields == 2      \* longest sensitive_fields list
MaxNoise == 1       \* a noise draw ranges over -MaxNoise..MaxNoise
MaxFeeds == 1       \* times a returned record is fed back into process_data
MaxCalls == 2       \* calls on fresh records in one behaviour (SpecKeyed)
MaxEvents == 2      \* most events in one batch
MaxStored == 3      \* POST /batch requests come in while fewer events are stored

----------------------------------------------------------------------------
(* Python values *)

PyInt(n) == [t |-> "int", n |-> n]
PyStr(s) == [t |-> "str", s |-> s]
PyBool(b) == [t |-> "bool", b |-> b]
PyNone == [t |-> "none"]
\* a float, in hundredths
PyFloat(c) == [t |-> "float", c |-> c]
\* a reference to the dict at heap address a
PyRef(a) == [t |-> "ref", a |-> a]

\* the kinds of value that are Python str objects: literals, and the strings
\* the transforms build (token, pseudonym, Fernet token, str() of an object)
StrKinds == {"str", "tok", "pseudo", "cipher", "repr"}

IsDict(v) == v.t = "ref"

\* isinstance(v, (int, float)); bool is a subclass of int
IsNumeric(v) == v.t \in {"int", "bool", "float"}

Digit(d) ==
    CASE d = 0 -> "0" [] d = 1 -> "1" [] d = 2 -> "2" [] d = 3 -> "3"
      [] d = 4 -> "4" [] d = 5 -> "5" [] d = 6 -> "6" [] d = 7 -> "7"
      [] d = 8 -> "8" [] d = 9 -> "9"

RECURSIVE NatToStr(_)
NatToStr(n) == IF n < 10 THEN Digit(n) ELSE NatToStr(n \div 10) \o Digit(n % 10)

IntToStr(n) == IF n < 0 THEN "-" \o NatToStr(-n) ELSE NatToStr(n)

\* str(v): the decimal digits of an int, "True"/"False", "None", a str itself;
\* the str() of any other object is a string determined by the object's contents
Str(h, v) ==
    CASE v.t = "int" -> PyStr(IntToStr(v.n))
      [] v.t = "bool" -> PyStr(IF v.b THEN "True" ELSE "False")
      [] v.t = "none" -> PyStr("None")
      [] v.t \in StrKinds -> v
      [] v.t = "ref" -> [t |-> "repr", of |-> h[v.a]]
      [] OTHER -> [t |-> "repr", of |-> v]

\* bool(v), as `if data[field]` evaluates it
Truthy(h, v) ==
    CASE v.t = "int" -> v.n # 0
      [] v.t = "bool" -> v.b
      [] v.t = "none" -> FALSE
      [] v.t = "float" -> v.c # 0
      [] v.t = "str" -> v.s # ""
      [] v.t = "ref" -> DOMAIN h[v.a] # {}
      [] OTHER -> TRUE

\* float(v) of a numeric value, in hundredths
ToFloat(v) ==
    CASE v.t = "int" -> 100 * v.n
      [] v.t = "bool" -> IF v.b THEN 100 ELSE 0
      [] v.t = "float" -> v.c

----------------------------------------------------------------------------
(* dicts *)

EmptyDict == <<>>

\* d[k] = v
Put(d, k, v) == [x \in DOMAIN d \cup {k} |-> IF x = k THEN v ELSE d[x]]

\* d without the key k
Without(d, k) == [x \in DOMAIN d \ {k} |-> d[x]]

\* a faulty variant of the copy: no new object, the same dict under a new name
CopyAlias(h, a) == [h |-> h, r |-> a]

\* dict.copy(): a new dict object with the same keys and the same values
\* (shallow: a value that is a reference is copied as the same reference)
DictCopy(h, a) == [h |-> Append(h, h[a]), r |-> Len(h) + 1]

\* a new dict object
NewDict(h, d) == [h |-> Append(h, d), r |-> Len(h) + 1]

HasDup(s) == \E i, j \in 1..Len(s) : i # j /\ s[i] = s[j]

----------------------------------------------------------------------------
(* class PrivacyLevels *)

Levels == {"RAW", "TOKENIZED", "PSEUDONYMIZED", "REDACTED", "GENERALIZED",
           "DIFFERENTIAL", "AGGREGATED", "SYNTHETIC"}

LevelValue(l) ==
    CASE l = "RAW" -> "raw"
      [] l = "TOKENIZED" -> "tokenized"
      [] l = "PSEUDONYMIZED" -> "pseudo"
      [] l = "REDACTED" -> "redacted"
      [] l = "GENERALIZED" -> "generalized"
      [] l = "DIFFERENTIAL" -> "differential"
      [] l = "AGGREGATED" -> "aggregated"
      [] l = "SYNTHETIC" -> "synthetic"

----------------------------------------------------------------------------
(* The keyed primitives.  A digest or a ciphertext is the term of its        *)
(* inputs: two digests are equal exactly when key and message are.           *)

\* hmac.new(key, msg, hashlib.sha256).hexdigest()
HmacSha256Hex(k, msg) == [key |-> k, msg |-> msg]

\* self.cipher.encrypt(value).decode(): a Fernet token carries a nonce of its
\* own (no two encryptions share one) and an authentication tag over its
\* contents
FernetEncrypt(k, plaintext, nonce) ==
    [t |-> "cipher", key |-> k, pt |-> plaintext, nonce |-> nonce, intact |-> TRUE]

\* self.cipher.decrypt(token): the plaintext of an intact token made under the
\* same key; anything else is rejected
FernetDecrypt(k, token) ==
    IF token.t = "cipher" /\ token.key = k /\ token.intact
    THEN [ok |-> TRUE, pt |-> token.pt]
    ELSE [ok |-> FALSE,
          err |-> IF token.t \in StrKinds THEN "InvalidToken" ELSE "TypeError"]

----------------------------------------------------------------------------
(* self.generalization_rules *)

GeneralizationRuleFields == {"age", "income", "location"}

\* a faulty variant: the quotient is rounded towards zero
RangeRuleTruncating(v, w) ==
    IF ~IsNumeric(v) THEN [ok |-> FALSE]
    ELSE IF v.t = "float"
    THEN LET lo == (v.c \div (100 * w)) * w
         IN [ok |-> TRUE,
             v |-> PyStr(IntToStr(lo) \o ".0-" \o IntToStr(lo + (w - 1)) \o ".0")]
    ELSE LET x == IF v.t = "bool" THEN (IF v.b THEN 1 ELSE 0) ELSE v.n
             lo == IF x < 0 THEN 0 - (((0 - x) \div w) * w) ELSE (x \div w) * w
         IN [ok |-> TRUE, v |-> PyStr(IntToStr(lo) \o "-" \o IntToStr(lo + (w - 1)))]

\* f"{(x//w)*w}-{(x//w)*w+(w-1)}" for a numeric x; // raises TypeError otherwise
RangeRule(v, w) ==
    IF ~IsNumeric(v) THEN [ok |-> FALSE]
    ELSE IF v.t = "float"
    THEN LET lo == (v.c \div (100 * w)) * w
         IN [ok |-> TRUE,
             v |-> PyStr(IntToStr(lo) \o ".0-" \o IntToStr(lo + (w - 1)) \o ".0")]
    ELSE LET x == IF v.t = "bool" THEN (IF v.b THEN 1 ELSE 0) ELSE v.n
             lo == (x \div w) * w
         IN [ok |-> TRUE, v |-> PyStr(IntToStr(lo) \o "-" \o IntToStr(lo + (w - 1)))]

\* s.split(',')[0] on the string literals of this model
FirstPart(s) == IF s = "Paris,France" THEN "Paris" ELSE s

\* x.split(',')[0] for a str x; AttributeError otherwise
LocationRule(v) ==
    CASE v.t = "str" -> [ok |-> TRUE, v |-> PyStr(FirstPart(v.s))]
      [] v.t = "repr" -> [ok |-> TRUE, v |-> [t |-> "repr", of |-> v, part |-> 0]]
      [] v.t \in {"tok", "pseudo", "cipher"} -> [ok |-> TRUE, v |-> v]
      [] OTHER -> [ok |-> FALSE]

ApplyRule(field, v) ==
    CASE field = "age" -> RangeRule(v, 10)
      [] field = "income" -> RangeRule(v, 10000)
      [] field = "location" -> LocationRule(v)

----------------------------------------------------------------------------
(* The eight transforms.  Each works on the dict at address a of heap h and *)
(* returns the heap it leaves and the address of the dict it returns.       *)

\* the value _encrypt_sensitive_fields stores for a field it encrypts
EncryptedValue(h, k, v, nonce) == FernetEncrypt(k, Str(h, v), nonce)

\* `if field in data and data[field]`
KeyedGuard(h, d, field) == field \in DOMAIN d /\ Truthy(h, d[field])

\* the nonce of an encryption: the call it is made in and its place in the loop
RECURSIVE EncryptLoop(_, _, _, _, _)
EncryptLoop(h, a, flds, k, now) ==
    IF flds = <<>> THEN h
    ELSE LET field == Head(flds)
             h1 == IF KeyedGuard(h, h[a], field)
                   THEN [h EXCEPT ![a] =
                            Put(h[a], field,
                                EncryptedValue(h, k, h[a][field], <<now, Len(flds)>>))]
                   ELSE h
         IN EncryptLoop(h1, a, Tail(flds), k, now)

EncryptSensitiveFields(h, a, flds, k, now) ==
    [h |-> EncryptLoop(h, a, flds, k, now), r |-> a]

\* a faulty variant of the token: the field name enters the digest
TokenFieldScoped(h, k, field, v) ==
    [t |-> "tok", mac |-> HmacSha256Hex(k, <<field, Str(h, v)>>)]

\* f"TOK_{token}", token the hex digest of str(data[field])
Token(h, k, field, v) == [t |-> "tok", mac |-> HmacSha256Hex(k, Str(h, v))]

RECURSIVE TokenizeLoop(_, _, _, _)
TokenizeLoop(h, a, flds, k) ==
    IF flds = <<>> THEN h
    ELSE LET field == Head(flds)
             h1 == IF KeyedGuard(h, h[a], field)
                   THEN [h EXCEPT ![a] = Put(h[a], field, Token(h, k, field, h[a][field]))]
                   ELSE h
         IN TokenizeLoop(h1, a, Tail(flds), k)

TokenizeFields(h, a, flds, k) == [h |-> TokenizeLoop(h, a, flds, k), r |-> a]

\* f"PSEUDO_{field}_{pseudo}", pseudo the first 12 characters of the digest
Pseudonym(h, k, field, v) ==
    [t |-> "pseudo", field |-> field, hash |-> HmacSha256Hex(k, Str(h, v))]

RECURSIVE PseudonymizeLoop(_, _, _, _)
PseudonymizeLoop(h, a, flds, k) ==
    IF flds = <<>> THEN h
    ELSE LET field == Head(flds)
             h1 == IF KeyedGuard(h, h[a], field)
                   THEN [h EXCEPT ![a] =
                            Put(h[a], field, Pseudonym(h, k, field, h[a][field]))]
                   ELSE h
         IN PseudonymizeLoop(h1, a, Tail(flds), k)

PseudonymizeFields(h, a, flds, k) == [h |-> PseudonymizeLoop(h, a, flds, k), r |-> a]

RedactedMarker == PyStr("[REDACTED]")

RECURSIVE RedactLoop(_, _, _)
RedactLoop(h, a, flds) ==
    IF flds = <<>> THEN h
    ELSE LET field == Head(flds)
             h1 == IF field \in DOMAIN h[a]
                   THEN [h EXCEPT ![a] = Put(h[a], field, RedactedMarker)]
                   ELSE h
         IN RedactLoop(h1, a, Tail(flds))

\* a faulty variant: the marker is stored under every requested name, whether
\* the record has the field or not
RECURSIVE RedactAbsentLoop(_, _, _)
RedactAbsentLoop(h, a, flds) ==
    IF flds = <<>> THEN h
    ELSE RedactAbsentLoop([h EXCEPT ![a] = Put(h[a], Head(flds), RedactedMarker)],
                          a, Tail(flds))

RedactFieldsAbsentToo(h, a, flds) == [h |-> RedactAbsentLoop(h, a, flds), r |-> a]

\* a faulty variant: the guard of the keyed transforms, which skips falsy values
RECURSIVE RedactTruthyLoop(_, _, _)
RedactTruthyLoop(h, a, flds) ==
    IF flds = <<>> THEN h
    ELSE LET field == Head(flds)
             h1 == IF KeyedGuard(h, h[a], field)
                   THEN [h EXCEPT ![a] = Put(h[a], field, RedactedMarker)]
                   ELSE h
         IN RedactTruthyLoop(h1, a, Tail(flds))

RedactFieldsTruthy(h, a, flds) == [h |-> RedactTruthyLoop(h, a, flds), r |-> a]

RedactFields(h, a, flds) == [h |-> RedactLoop(h, a, flds), r |-> a]

GeneralizationError == PyStr("GENERALIZATION_ERROR")

RECURSIVE GeneralizeLoop(_, _, _)
GeneralizeLoop(h, a, flds) ==
    IF flds = <<>> THEN h
    ELSE LET field == Head(flds)
             h1 == IF field \in DOMAIN h[a] /\ field \in GeneralizationRuleFields
                   THEN LET g == ApplyRule(field, h[a][field])
                        IN [h EXCEPT ![a] =
                              Put(h[a], field, IF g.ok THEN g.v ELSE GeneralizationError)]
                   ELSE h
         IN GeneralizeLoop(h1, a, Tail(flds))

\* a faulty variant: the rule is looked up for every field the record has, and
\* the KeyError of a field without a rule ends in the error marker
RECURSIVE GeneralizeAnyLoop(_, _, _)
GeneralizeAnyLoop(h, a, flds) ==
    IF flds = <<>> THEN h
    ELSE LET field == Head(flds)
             h1 == IF field \in DOMAIN h[a]
                   THEN LET g == IF field \in GeneralizationRuleFields
                                 THEN ApplyRule(field, h[a][field])
                                 ELSE [ok |-> FALSE]
                        IN [h EXCEPT ![a] =
                              Put(h[a], field, IF g.ok THEN g.v ELSE GeneralizationError)]
                   ELSE h
         IN GeneralizeAnyLoop(h1, a, Tail(flds))

GeneralizeFieldsAnyField(h, a, flds) == [h |-> GeneralizeAnyLoop(h, a, flds), r |-> a]

\* a faulty variant: the first rule that fails ends the loop
RECURSIVE GeneralizeAbortLoop(_, _, _)
GeneralizeAbortLoop(h, a, flds) ==
    IF flds = <<>> THEN h
    ELSE LET field == Head(flds)
         IN IF field \in DOMAIN h[a] /\ field \in GeneralizationRuleFields
            THEN LET g == ApplyRule(field, h[a][field])
                 IN IF g.ok
                    THEN GeneralizeAbortLoop([h EXCEPT ![a] = Put(h[a], field, g.v)],
                                             a, Tail(flds))
                    ELSE [h EXCEPT ![a] = Put(h[a], field, GeneralizationError)]
            ELSE GeneralizeAbortLoop(h, a, Tail(flds))

GeneralizeFieldsAbort(h, a, flds) == [h |-> GeneralizeAbortLoop(h, a, flds), r |-> a]

GeneralizeFields(h, a, flds) == [h |-> GeneralizeLoop(h, a, flds), r |-> a]

\* float(data[field]) + noise; the draw is in tenths, the float in hundredths
RECURSIVE DifferentialLoop(_, _, _, _)
DifferentialLoop(h, a, flds, rnd) ==
    IF flds = <<>> THEN h
    ELSE LET field == Head(flds)
             h1 == IF field \in DOMAIN h[a] /\ IsNumeric(h[a][field])
                   THEN [h EXCEPT ![a] =
                            Put(h[a], field, PyFloat(ToFloat(h[a][field]) + 10 * Head(rnd)))]
                   ELSE h
         IN DifferentialLoop(h1, a, Tail(flds), Tail(rnd))

ApplyDifferentialPrivacy(h, a, flds, rnd) ==
    [h |-> DifferentialLoop(h, a, flds, rnd), r |-> a]

NumericSummary(v) ==
    [t |-> "summary", type |-> "numeric", count |-> 1, sum |-> v, avg |-> v]

\* {"type": "categorical", "categories": {str(v): 1}}
CategoricalSummary(h, v) ==
    [t |-> "summary", type |-> "categorical",
     categories |-> [category |-> Str(h, v), count |-> 1]]

SummaryKey(field) == field \o "_summary"

\* reads the dict at a, fills the new dict at address agg
RECURSIVE AggregateLoop(_, _, _, _)
AggregateLoop(h, a, agg, flds) ==
    IF flds = <<>> THEN h
    ELSE LET field == Head(flds)
             h1 == IF field \in DOMAIN h[a]
                   THEN [h EXCEPT ![agg] =
                            Put(h[agg], SummaryKey(field),
                                IF IsNumeric(h[a][field])
                                THEN NumericSummary(h[a][field])
                                ELSE CategoricalSummary(h, h[a][field]))]
                   ELSE h
         IN AggregateLoop(h1, a, agg, Tail(flds))

AggregateInto(n, a, flds) == [h |-> AggregateLoop(n.h, a, n.r, flds), r |-> n.r]

\* a faulty variant: the summaries are added to a copy of the record
AggregateIntoCopy(h, a, flds) == AggregateInto(DictCopy(h, a), a, flds)

AggregateData(h, a, flds) == AggregateInto(NewDict(h, EmptyDict), a, flds)

\* base * (1 + N(0, 0.1)); the draw z stands for z tenths
SyntheticValue(field, v, z) ==
    IF IsNumeric(v)
    THEN PyFloat((ToFloat(v) * (10 + z)) \div 10)
    ELSE PyStr("SYNTHETIC_" \o field)

\* reads the dict at a, writes the copy at address syn
RECURSIVE SyntheticLoop(_, _, _, _, _)
SyntheticLoop(h, a, syn, flds, rnd) ==
    IF flds = <<>> THEN h
    ELSE LET field == Head(flds)
             h1 == IF field \in DOMAIN h[a]
                   THEN [h EXCEPT ![syn] =
                            Put(h[syn], field, SyntheticValue(field, h[a][field], Head(rnd)))]
                   ELSE h
         IN SyntheticLoop(h1, a, syn, Tail(flds), Tail(rnd))

SyntheticInto(c, a, flds, rnd) ==
    [h |-> SyntheticLoop(c.h, a, c.r, flds, rnd), r |-> c.r]

\* a faulty variant: the synthetic record starts empty instead of as a copy
SyntheticStartEmpty(h, a, flds, rnd) == SyntheticInto(NewDict(h, EmptyDict), a, flds, rnd)

GenerateSynthetic(h, a, flds, rnd) == SyntheticInto(DictCopy(h, a), a, flds, rnd)

----------------------------------------------------------------------------
(* PrivacyProcessor.process_data *)

\* the level dispatch
Transform(h, a, lvl, flds, k, now, rnd) ==
    CASE lvl = "RAW" -> EncryptSensitiveFields(h, a, flds, k, now)
      [] lvl = "TOKENIZED" -> TokenizeFields(h, a, flds, k)
      [] lvl = "PSEUDONYMIZED" -> PseudonymizeFields(h, a, flds, k)
      [] lvl = "REDACTED" -> RedactFields(h, a, flds)
      [] lvl = "GENERALIZED" -> GeneralizeFields(h, a, flds)
      [] lvl = "DIFFERENTIAL" -> ApplyDifferentialPrivacy(h, a, flds, rnd)
      [] lvl = "AGGREGATED" -> AggregateData(h, a, flds)
      [] lvl = "SYNTHETIC" -> GenerateSynthetic(h, a, flds, rnd)

\* a faulty variant of the block: the member's name in place of its value
MetadataNamedLevel(lvl, flds, now) ==
    [t |-> "meta", level |-> lvl, processed_at |-> now,
     fields_processed |-> flds]

\* the block stored under '_privacy'
Metadata(lvl, flds, now) ==
    [t |-> "meta", level |-> LevelValue(lvl), processed_at |-> now,
     fields_processed |-> flds]

\* processed_data['_privacy'] = {...}; return processed_data
StampAndReturn(x, meta) ==
    [h |-> [x.h EXCEPT ![x.r] = Put(x.h[x.r], "_privacy", meta)],
     result |-> [kind |-> "returned", ref |-> x.r]]

\* the transform of the level, applied to the copy c
TransformCopy(c, lvl, flds, k, now, rnd) == Transform(c.h, c.r, lvl, flds, k, now, rnd)

\* the whole call: the heap it leaves and how it ends
ProcessDataCall(h, d, lvl, flds, k, now, rnd) ==
    IF ~IsDict(d)
    THEN [h |-> h, result |-> [kind |-> "raised", err |-> "ValueError"]]
    ELSE IF lvl \notin Levels
    THEN [h |-> h, result |-> [kind |-> "raised", err |-> "AttributeError"]]
    ELSE StampAndReturn(TransformCopy(DictCopy(h, d.a), lvl, flds, k, now, rnd),
                        Metadata(lvl, flds, now))

----------------------------------------------------------------------------
(* The caller *)

\* the key the processor is constructed with, and a key it does not have
Keys == {"k1"}
OtherKey == "k2"

FieldNames == {"email", "age", "_privacy"}

\* the dict a record may hold as a nested value
NestedDict == [city |-> PyStr("Paris")]

\* a new heap: the caller's record at address 1, the nested dict at address 2
CallerHeap(d) == <<d, NestedDict>>

\* the values a caller's record may hold under each field name: falsy and
\* truthy ones of every type, 42 and "a@b.com" under both names
ValuesOf(f) ==
    CASE f = "email" -> {PyStr(""), PyStr("a@b.com"), PyNone, PyInt(42), PyRef(2)}
      [] f = "age" -> {PyInt(0), PyInt(42), PyBool(FALSE), PyStr("a@b.com")}
      [] f = "_privacy" -> {PyStr("a@b.com")}

AllValues == UNION {ValuesOf(f) : f \in FieldNames}

Records ==
    UNION {{d \in [ks -> AllValues] : \A f \in ks : d[f] \in ValuesOf(f)} :
               ks \in SUBSET FieldNames}

\* arguments that are no dict
NonDicts == {PyNone, PyStr("a@b.com")}

\* a level argument that is no member of PrivacyLevels: the str 'raw', which
\* has no attribute 'value'
NonLevels == {"raw"}

FieldLists == UNION {[1..n -> FieldNames] : n \in 0..MaxFields}

Draws == (0 - MaxNoise)..MaxNoise

\* the levels that draw noise, one draw for each numeric field they process
NoiseLevels == {"DIFFERENTIAL", "SYNTHETIC"}

\* the draws of one call on the dict d: one for each place of the list whose
\* field gets noise (0 stands at the places where nothing is drawn)
DrawsFor(lvl, flds, d) ==
    {r \in [1..Len(flds) -> Draws] :
        \A i \in 1..Len(flds) :
            ~(lvl \in NoiseLevels /\ flds[i] \in DOMAIN d /\ IsNumeric(d[flds[i]]))
                => r[i] = 0}

NoResult == [kind |-> "none"]

\* PrivacyProcessor(encryption_key) with a key: the constructor returns
Init ==
    /\ key \in Keys
    /\ heap = CallerHeap(EmptyDict)
    /\ data = PyNone
    /\ level = "RAW"
    /\ fields = <<>>
    /\ orig = EmptyDict
    /\ result = NoResult
    /\ pc = "idle"
    /\ calls = 0
    /\ feeds = 0
    /\ issued = {}
    /\ OthersIdle

\* the caller calls process_data(d, lvl, flds) on a dict of its own
CallDict(d, lvl, flds) ==
    /\ heap' = CallerHeap(d)
    /\ data' = PyRef(1)
    /\ orig' = d
    /\ level' = lvl
    /\ fields' = flds
    /\ result' = NoResult
    /\ pc' = "called"
    /\ calls' = calls + 1
    /\ UNCHANGED <<key, feeds, issued, others>>

\* the caller calls process_data(v, lvl, flds) on something that is no dict
CallNonDict(v, lvl, flds) ==
    /\ heap' = CallerHeap(EmptyDict)
    /\ data' = v
    /\ orig' = EmptyDict
    /\ level' = lvl
    /\ fields' = flds
    /\ result' = NoResult
    /\ pc' = "called"
    /\ calls' = calls + 1
    /\ UNCHANGED <<key, feeds, issued, others>>

\* the caller is free to call: no call is running and it has calls left
CanCall == pc = "idle" /\ calls < MaxCalls

Call ==
    /\ CanCall
    /\ \E lvl \in Levels \cup NonLevels, flds \in FieldLists :
          \/ \E d \in Records : CallDict(d, lvl, flds)
          \/ \E v \in NonDicts : CallNonDict(v, lvl, flds)

\* history: per requested field the record had, what came in and what went out
Observed(lvl, flds, before, after) ==
    IF lvl \in {"TOKENIZED", "PSEUDONYMIZED"}
    THEN {[level |-> lvl, field |-> flds[i], vin |-> before[flds[i]],
           vout |-> after[flds[i]], dup |-> HasDup(flds), call |-> "latest"] :
              i \in {j \in 1..Len(flds) : flds[j] \in DOMAIN before}}
    ELSE {}

\* history: a new call begins, the latest call becomes the one before it
Shift(log) == {[e EXCEPT !.call = "previous"] : e \in {x \in log : x.call = "latest"}}

\* process_data runs, from entry to return or raise
ProcessData ==
    /\ pc = "called"
    /\ \E rnd \in DrawsFor(level, fields, orig) :
         \E res \in {ProcessDataCall(heap, data, level, fields, key, calls + feeds, rnd)} :
            /\ heap' = res.h
            /\ result' = res.result
            /\ issued' = IF res.result.kind = "returned"
                         THEN issued \cup Observed(level, fields, orig, res.h[res.result.ref])
                         ELSE issued
    /\ pc' = "done"
    /\ UNCHANGED <<key, data, level, fields, orig, calls, feeds, others>>

\* the caller passes the returned record to process_data again, same request
\* (modelled at the levels that draw no noise)
Refeed ==
    /\ pc = "done"
    /\ result.kind = "returned"
    /\ level \notin NoiseLevels
    /\ feeds < MaxFeeds
    /\ data' = PyRef(result.ref)
    /\ orig' = heap[result.ref]
    /\ result' = NoResult
    /\ pc' = "called"
    /\ feeds' = feeds + 1
    /\ issued' = Shift(issued)
    /\ UNCHANGED <<key, heap, level, fields, calls, others>>

Next == Call \/ ProcessData \/ Refeed

Spec == Init /\ [][Next]_vars

----------------------------------------------------------------------------
(* Several calls on records of the caller's own, at the keyed deterministic *)
(* levels: what Tokenize and Pseudonymize return across calls.              *)

KeyedLevels == {"TOKENIZED", "PSEUDONYMIZED"}

KeyedFieldNames == {"email", "age"}

\* 42 as an int and as a str, and a falsy value, under both names
KeyedValues == {PyInt(42), PyStr("42"), PyInt(0)}

KeyedRecords == UNION {[ks -> KeyedValues] : ks \in SUBSET KeyedFieldNames}

KeyedFieldLists == UNION {[1..n -> KeyedFieldNames] : n \in 0..MaxFields}

CallKeyed ==
    /\ CanCall
    /\ \E lvl \in KeyedLevels, flds \in KeyedFieldLists, d \in KeyedRecords :
          CallDict(d, lvl, flds)

\* the caller is done with the returned record and drops it
Finish ==
    /\ pc = "done"
    /\ pc' = "idle"
    /\ heap' = CallerHeap(EmptyDict)
    /\ data' = PyNone
    /\ orig' = EmptyDict
    /\ result' = NoResult
    /\ level' = "RAW"
    /\ fields' = <<>>
    /\ issued' = Shift(issued)
    /\ UNCHANGED <<key, calls, feeds, others>>

NextKeyed == CallKeyed \/ ProcessData \/ Finish

SpecKeyed == Init /\ [][NextKeyed]_vars

----------------------------------------------------------------------------
(* Calls at Generalized, on records with the three fields that have a rule  *)
(* and one that has none.                                                   *)

GenFieldNames == {"age", "income", "location", "email"}

\* values the rule of the field accepts and values it fails on
GenValuesOf(f) ==
    CASE f = "age" -> {PyInt(42), PyInt(-5), PyStr("not-a-number")}
      [] f = "income" -> {PyInt(55000), PyNone}
      [] f = "location" -> {PyStr("Paris,France"), PyInt(42)}
      [] f = "email" -> {PyStr("a@b.com")}

GenValues == UNION {GenValuesOf(f) : f \in GenFieldNames}

GenRecords ==
    UNION {{d \in [ks -> GenValues] : \A f \in ks : d[f] \in GenValuesOf(f)} :
               ks \in SUBSET GenFieldNames}

GenFieldLists == UNION {[1..n -> GenFieldNames] : n \in 0..MaxFields}

CallGen ==
    /\ CanCall
    /\ \E flds \in GenFieldLists, d \in GenRecords : CallDict(d, "GENERALIZED", flds)

NextGen == CallGen \/ ProcessData \/ Finish

SpecGen == Init /\ [][NextGen]_vars

----------------------------------------------------------------------------
(* Construction: PrivacyProcessor(encryption_key) with and without a key,   *)
(* with PRIVACY_KEY set or unset, and the keyed transforms called on what   *)
(* the constructor returns.  An optional str is the set of at most one      *)
(* string: {} is None.                                                      *)

Nothing == {}

KeyArgs == {Nothing, {""}, {"k1"}}

\* `not x` for an optional str
Missing(o) == o = Nothing \/ o = {""}

\* encryption_key or os.environ.get('PRIVACY_KEY')
ResolveKey(arg, env) == IF Missing(arg) THEN env ELSE arg

\* a faulty variant: only None is refused, the empty string is taken as a key
ConstructorNoneOnly(arg, env) ==
    IF ResolveKey(arg, env) = Nothing
    THEN [ok |-> FALSE, err |-> "ValueError"]
    ELSE [ok |-> TRUE, key |-> CHOOSE s \in ResolveKey(arg, env) : TRUE]

\* __init__: raises when no key is given, else keeps the key
Constructor(arg, env) ==
    IF Missing(ResolveKey(arg, env))
    THEN [ok |-> FALSE, err |-> "ValueError"]
    ELSE [ok |-> TRUE, key |-> CHOOSE s \in ResolveKey(arg, env) : TRUE]

\* before the constructor runs there is no processor and no key
InitNew ==
    /\ key = ""
    /\ heap = CallerHeap(EmptyDict)
    /\ data = PyNone
    /\ level = "RAW"
    /\ fields = <<>>
    /\ orig = EmptyDict
    /\ result = NoResult
    /\ pc = "new"
    /\ calls = 0
    /\ feeds = 0
    /\ issued = {}
    /\ OthersIdle

\* PrivacyProcessor(arg) runs with PRIVACY_KEY = env; when it raises there is
\* no processor to call
Construct ==
    /\ pc = "new"
    /\ \E arg \in KeyArgs, env \in KeyArgs :
          \E c \in {Constructor(arg, env)} :
             IF c.ok
             THEN key' = c.key /\ pc' = "idle" /\ result' = NoResult
             ELSE key' = key /\ pc' = "unbuilt"
                  /\ result' = [kind |-> "raised", err |-> c.err]
    /\ UNCHANGED <<heap, data, level, fields, orig, calls, feeds, issued, others>>

\* the levels whose transform uses the key: Encrypt, Tokenize, Pseudonymize
KeyUsingLevels == {"RAW", "TOKENIZED", "PSEUDONYMIZED"}

CallKeyUsing ==
    /\ CanCall
    /\ \E lvl \in KeyUsingLevels, flds \in KeyedFieldLists, d \in KeyedRecords :
          CallDict(d, lvl, flds)

NextCtor == Construct \/ CallKeyUsing \/ ProcessData \/ Finish

SpecCtor == InitNew /\ [][NextCtor]_vars

----------------------------------------------------------------------------
\* a constructed processor and a caller that has not called yet
CallerIdle ==
    /\ key \in Keys
    /\ heap = CallerHeap(EmptyDict)
    /\ data = PyNone
    /\ level = "RAW"
    /\ fields = <<>>
    /\ orig = EmptyDict
    /\ result = NoResult
    /\ pc = "idle"
    /\ calls = 0
    /\ feeds = 0
    /\ issued = {}

----------------------------------------------------------------------------
(* Nested values: the caller's record holds a dict under a field, and after *)
(* the call the caller assigns to a key of the dict it finds under that     *)
(* field in the returned record.                                            *)

NestedRecords ==
    {d \in Records : "email" \in DOMAIN d /\ d["email"] = PyRef(2)
                        /\ "_privacy" \notin DOMAIN d}

CallNested ==
    /\ CanCall
    /\ \E lvl \in Levels, flds \in FieldLists, d \in NestedRecords :
          CallDict(d, lvl, flds)

\* out[f]["city"] = "Lyon", for a field f of the returned record that holds a dict
WriteNested ==
    /\ pc = "done"
    /\ result.kind = "returned"
    /\ \E f \in DOMAIN heap[result.ref] :
          /\ heap[result.ref][f].t = "ref"
          /\ heap' = [heap EXCEPT ![heap[result.ref][f].a] = Put(@, "city", PyStr("Lyon"))]
    /\ pc' = "written"
    /\ UNCHANGED <<key, data, level, fields, orig, result, calls, feeds, issued, others>>

NextNested == CallNested \/ ProcessData \/ WriteNested

SpecNested == Init /\ [][NextNested]_vars

----------------------------------------------------------------------------
(* Concurrent callers: several threads call process_data of one processor,  *)
(* each on a record of its own.  A thread advances by one step at a time    *)
(* (entry and copy, one pass of the transform's loop, stamp and return),    *)
(* and the steps of the threads interleave in any order.  The heap and      *)
(* numpy's module-level generator are shared by the threads.                *)

Tasks == {"t1", "t2"}

DeterministicLevels == {"TOKENIZED", "PSEUDONYMIZED", "REDACTED", "GENERALIZED", "AGGREGATED"}

ConcLevels == DeterministicLevels \cup NoiseLevels

ConcRecords ==
    {[email |-> PyStr("a@b.com"), age |-> PyInt(42)], [age |-> PyInt(0)]}

ConcFieldLists == {<<"email", "age">>, <<"age">>}

IdleTask == [pc |-> "idle"]

\* one processor, its callers not yet calling
InitConc ==
    /\ key \in Keys
    /\ heap = CallerHeap(EmptyDict)
    /\ data = PyNone
    /\ level = "RAW"
    /\ fields = <<>>
    /\ orig = EmptyDict
    /\ result = NoResult
    /\ pc = "idle"
    /\ calls = 0
    /\ feeds = 0
    /\ issued = {}
    /\ tasks = [t \in Tasks |-> IdleTask]
    /\ np_random = <<>>
    /\ BatchIdle
    /\ SessIdle
    /\ FactIdle
    /\ MongoIdle
    /\ RuleIdle

\* a faulty variant: the summaries of Aggregated are collected in a dict that
\* all calls share
WorkingDictShared(h, lvl, a) ==
    IF lvl = "AGGREGATED"
    THEN [h |-> DictCopy(h, a).h, src |-> DictCopy(h, a).r, out |-> 1]
    ELSE IF lvl = "SYNTHETIC"
    THEN [h |-> DictCopy(DictCopy(h, a).h, DictCopy(h, a).r).h,
          src |-> DictCopy(h, a).r,
          out |-> DictCopy(DictCopy(h, a).h, DictCopy(h, a).r).r]
    ELSE [h |-> DictCopy(h, a).h, src |-> DictCopy(h, a).r, out |-> DictCopy(h, a).r]

\* processed_data = data.copy(), then the dict the transform writes: the copy
\* itself, a new dict (Aggregated) or a copy of the copy (Synthetic)
WorkingDict(h, lvl, a) ==
    IF lvl = "AGGREGATED"
    THEN [h |-> NewDict(DictCopy(h, a).h, EmptyDict).h,
          src |-> DictCopy(h, a).r,
          out |-> NewDict(DictCopy(h, a).h, EmptyDict).r]
    ELSE IF lvl = "SYNTHETIC"
    THEN [h |-> DictCopy(DictCopy(h, a).h, DictCopy(h, a).r).h,
          src |-> DictCopy(h, a).r,
          out |-> DictCopy(DictCopy(h, a).h, DictCopy(h, a).r).r]
    ELSE [h |-> DictCopy(h, a).h, src |-> DictCopy(h, a).r, out |-> DictCopy(h, a).r]

\* one pass of the loop of the level's transform, for the field `field`:
\* reads the dict at src, writes the dict at out, with the draw z where the
\* pass draws noise
FieldStep(h, src, out, lvl, field, k, z) ==
    CASE lvl = "TOKENIZED" ->
            IF KeyedGuard(h, h[out], field)
            THEN [h EXCEPT ![out] = Put(h[out], field, Token(h, k, field, h[out][field]))]
            ELSE h
      [] lvl = "PSEUDONYMIZED" ->
            IF KeyedGuard(h, h[out], field)
            THEN [h EXCEPT ![out] = Put(h[out], field, Pseudonym(h, k, field, h[out][field]))]
            ELSE h
      [] lvl = "REDACTED" ->
            IF field \in DOMAIN h[out]
            THEN [h EXCEPT ![out] = Put(h[out], field, RedactedMarker)]
            ELSE h
      [] lvl = "GENERALIZED" ->
            IF field \in DOMAIN h[out] /\ field \in GeneralizationRuleFields
            THEN [h EXCEPT ![out] =
                     Put(h[out], field,
                         IF ApplyRule(field, h[out][field]).ok
                         THEN ApplyRule(field, h[out][field]).v
                         ELSE GeneralizationError)]
            ELSE h
      [] lvl = "DIFFERENTIAL" ->
            IF field \in DOMAIN h[out] /\ IsNumeric(h[out][field])
            THEN [h EXCEPT ![out] =
                     Put(h[out], field, PyFloat(ToFloat(h[out][field]) + 10 * z))]
            ELSE h
      [] lvl = "AGGREGATED" ->
            IF field \in DOMAIN h[src]
            THEN [h EXCEPT ![out] =
                     Put(h[out], SummaryKey(field),
                         IF IsNumeric(h[src][field])
                         THEN NumericSummary(h[src][field])
                         ELSE CategoricalSummary(h, h[src][field]))]
            ELSE h
      [] lvl = "SYNTHETIC" ->
            IF field \in DOMAIN h[src]
            THEN [h EXCEPT ![out] = Put(h[out], field, SyntheticValue(field, h[src][field], z))]
            ELSE h

\* the pass for this field calls np.random.laplace or np.random.normal
DrawsNoise(h, src, lvl, field) ==
    lvl \in NoiseLevels /\ field \in DOMAIN h[src] /\ IsNumeric(h[src][field])

\* datetime.utcnow(): the calls that have returned so far
UtcNow == Cardinality({t \in Tasks : tasks[t].pc = "done"})

\* a thread calls process_data(d, lvl, flds) on a new dict of its own
Submit(t) ==
    /\ tasks[t].pc = "idle"
    /\ \E d \in ConcRecords, lvl \in ConcLevels, flds \in ConcFieldLists :
          /\ heap' = Append(heap, d)
          /\ tasks' = [tasks EXCEPT ![t] =
                          [pc |-> "called", input |-> d, data |-> Len(heap) + 1,
                           level |-> lvl, fields |-> flds, reads |-> <<>>]]
    /\ UNCHANGED <<key, data, level, fields, orig, result, pc, calls, feeds, issued,
                   np_random, outsideConc>>

\* the thread's call copies the record and enters the transform of its level
Enter(t) ==
    /\ tasks[t].pc = "called"
    /\ \E w \in {WorkingDict(heap, tasks[t].level, tasks[t].data)} :
          /\ heap' = w.h
          /\ tasks' = [tasks EXCEPT ![t] =
                          [pc |-> "loop", input |-> tasks[t].input, data |-> tasks[t].data,
                           level |-> tasks[t].level, fields |-> tasks[t].fields,
                           reads |-> <<>>, src |-> w.src, out |-> w.out,
                           rest |-> tasks[t].fields]]
    /\ UNCHANGED <<key, data, level, fields, orig, result, pc, calls, feeds, issued,
                   np_random, outsideConc>>

\* one pass of the transform's loop; a pass that draws noise reads the state
\* of np.random and advances it
Step(t) ==
    /\ tasks[t].pc = "loop"
    /\ tasks[t].rest # <<>>
    /\ IF DrawsNoise(heap, tasks[t].src, tasks[t].level, Head(tasks[t].rest))
       THEN /\ \E z \in Draws :
                  heap' = FieldStep(heap, tasks[t].src, tasks[t].out, tasks[t].level,
                                    Head(tasks[t].rest), key, z)
            /\ np_random' = Append(np_random, t)
            /\ tasks' = [tasks EXCEPT ![t].rest = Tail(@),
                                       ![t].reads = Append(@, np_random)]
       ELSE /\ heap' = FieldStep(heap, tasks[t].src, tasks[t].out, tasks[t].level,
                                 Head(tasks[t].rest), key, 0)
            /\ np_random' = np_random
            /\ tasks' = [tasks EXCEPT ![t].rest = Tail(@)]
    /\ UNCHANGED <<key, data, level, fields, orig, result, pc, calls, feeds, issued,
                   outsideConc>>

\* the loop is over: the call stamps '_privacy' and returns the record
Return(t) ==
    /\ tasks[t].pc = "loop"
    /\ tasks[t].rest = <<>>
    /\ heap' = [heap EXCEPT ![tasks[t].out] =
                   Put(@, "_privacy", Metadata(tasks[t].level, tasks[t].fields, UtcNow))]
    /\ tasks' = [tasks EXCEPT ![t] =
                    [pc |-> "done", input |-> tasks[t].input, data |-> tasks[t].data,
                     level |-> tasks[t].level, fields |-> tasks[t].fields,
                     reads |-> tasks[t].reads, src |-> tasks[t].src, out |-> tasks[t].out,
                     rest |-> <<>>, at |-> UtcNow,
                     result |-> [kind |-> "returned", ref |-> tasks[t].out]]]
    /\ UNCHANGED <<key, data, level, fields, orig, result, pc, calls, feeds, issued,
                   np_random, outsideConc>>

NextConc == \E t \in Tasks : Submit(t) \/ Enter(t) \/ Step(t) \/ Return(t)

SpecConc == InitConc /\ [][NextConc]_vars

----------------------------------------------------------------------------
(* POST /batch (app/api/routes/analytics.py): process_batch reads the body, *)
(* validates it as an AnalyticsBatch, refuses an empty batch, stores the    *)
(* events with insert_many and answers.                                     *)

EventIds == {"e1", "e2"}

\* what the sender put in the body: the JSON of a batch with these events, or
\* something that is no valid AnalyticsBatch
Payloads ==
    {[kind |-> "batch", events |-> es] :
        es \in UNION {[1..n -> EventIds] : n \in 0..MaxEvents}}
      \cup {[kind |-> "malformed"]}

\* the header Content-Encoding is gzip or absent; the body is the payload as
\* it is, or packed (gzip, then base64)
Requests ==
    {[kind |-> "post", encoding |-> e, packed |-> p, payload |-> b, before |-> <<>>] :
        e \in {"gzip", "identity"}, p \in BOOLEAN, b \in Payloads}

\* AnalyticsBatch.model_validate_json(body) on the bytes of the payload
ValidateJson(payload) ==
    IF payload.kind = "batch"
    THEN [ok |-> TRUE, events |-> payload.events]
    ELSE [ok |-> FALSE, err |-> "ValidationError"]

\* decompress_analytics: b64decode, gzip.decompress, validate; whatever fails
\* becomes HTTPException(400, "Invalid compressed data format")
DecompressAnalytics(req) ==
    IF req.packed /\ ValidateJson(req.payload).ok
    THEN ValidateJson(req.payload)
    ELSE [ok |-> FALSE, err |-> "HTTPException", status |-> 400,
          detail |-> "Invalid compressed data format"]

\* lines 116-120: the batch, or the exception raised while reading it
ReadBatch(req) ==
    IF req.encoding = "gzip"
    THEN DecompressAnalytics(req)
    ELSE IF req.packed
    THEN [ok |-> FALSE, err |-> "ValidationError"]
    ELSE ValidateJson(req.payload)

\* lines 142-152: what the handlers of process_batch make of an exception
\* raised in its try block
Handled(err) ==
    IF err = "ValidationError"
    THEN [kind |-> "sent", status |-> 422, detail |-> "validation errors"]
    ELSE [kind |-> "sent", status |-> 500,
          detail |-> "An error occurred processing the analytics batch"]

\* the answer to an exception x raised in the try block
Caught(x) == Handled(x.err)

\* `if not batch.events: raise HTTPException(400, ...)`
EmptyBatch ==
    [ok |-> FALSE, err |-> "HTTPException", status |-> 400,
     detail |-> "Batch must contain events"]

\* a request comes in
PostBatch ==
    /\ request.kind = "none" \/ response.kind = "sent"
    /\ Len(events) < MaxStored
    /\ \E req \in Requests : request' = [req EXCEPT !.before = events]
    /\ response' = [kind |-> "none"]
    /\ UNCHANGED <<events, outsideBatch>>

\* process_batch runs, from the read of the body to the answer; insert_many
\* stores the events, or fails after it has stored some of them
ProcessBatch ==
    /\ request.kind = "post"
    /\ response.kind = "none"
    /\ \E b \in {ReadBatch(request)} :
          IF ~b.ok
          THEN response' = Caught(b) /\ events' = events
          ELSE IF b.events = <<>>
          THEN response' = Caught(EmptyBatch) /\ events' = events
          ELSE \/ /\ events' = events \o b.events
                  /\ response' = [kind |-> "sent", status |-> 201, detail |-> "stored"]
               \/ \E n \in 0..(Len(b.events) - 1) :
                     /\ events' = events \o SubSeq(b.events, 1, n)
                     /\ response' = Caught([ok |-> FALSE, err |-> "BulkWriteError"])
    /\ UNCHANGED <<request, outsideBatch>>

NextBatch == PostBatch \/ ProcessBatch

SpecBatch == Init /\ [][NextBatch]_vars

----------------------------------------------------------------------------
(* What the properties below speak of *)

\* process_data has returned a record
Returned == pc = "done" /\ result.kind = "returned"

\* the record it returned
Out == heap[result.ref]

Requested(f) == \E i \in 1..Len(fields) : fields[i] = f

\* the requested fields the caller's record had, in request order
PresentRequested == SelectSeq(fields, LAMBDA f : f \in DOMAIN orig)

\* how often the list names the field
Occurrences(f) == Cardinality({i \in 1..Len(fields) : fields[i] = f})

\* the field has a generalization rule and the caller's record has the field
RuleApplies(f) == f \in GeneralizationRuleFields /\ f \in DOMAIN orig

\* the rule of the field raises on the value the caller's record holds
RuleFails(f) == RuleApplies(f) /\ ~ApplyRule(f, orig[f]).ok

\* the keys of the block process_data stamps (t is the model's tag of the value)
MetadataKeys == {"level", "processed_at", "fields_processed"}

\* the key a value made by a keyed transform was made with
KeyOf(v) ==
    CASE v.t = "cipher" -> v.key
      [] v.t = "tok" -> v.mac.key
      [] v.t = "pseudo" -> v.hash.key

\* the record process_data returns for the task's arguments when the call runs
\* alone, stamped at the time the task's call was
Alone(t) ==
    LET s == ProcessDataCall(CallerHeap(tasks[t].input), PyRef(1), tasks[t].level,
                             tasks[t].fields, key, tasks[t].at, <<>>)
    IN s.h[s.result.ref]

\* the call of task t is running: entered and not yet returned
InFlight(t) == tasks # <<>> /\ tasks[t].pc \in {"called", "loop"}

\* task t has read a state of the generator that task u had advanced
ReadAfter(t, u) ==
    \E i \in 1..Len(tasks[t].reads) :
        \E j \in 1..Len(tasks[t].reads[i]) : tasks[t].reads[i][j] = u

\* a ciphertext with a byte changed
Tamper(c) == IF c.t = "cipher" THEN [c EXCEPT !.intact = FALSE] ELSE c

----------------------------------------------------------------------------
(* C1: process_data never mutates the caller's record: when the call has   *)
(* returned or raised, the caller's dict has the keys and values it had    *)
(* when the call began (and the dict nested in it is as it was).           *)
C1_InputNotMutated ==
    (pc = "done" /\ IsDict(data)) => (heap[data.a] = orig /\ heap[2] = NestedDict)

\* a call has returned a record in which a field of the caller's was replaced
C1_Witness ==
    /\ Returned
    /\ \E f \in DOMAIN orig \ {"_privacy"} : Requested(f) /\ Out[f] # orig[f]
    /\ heap[data.a] = orig

(* C2: under Raw every requested field the record has, whatever its value, *)
(* is replaced by a ciphertext of the string form of its value.  Stated    *)
(* for a first call, a list without repeats and fields other than the      *)
(* metadata's own name.                                                    *)
C2_RawEncryptsEveryPresentField ==
    (Returned /\ level = "RAW" /\ feeds = 0 /\ ~HasDup(fields)) =>
        \A f \in DOMAIN orig \ {"_privacy"} :
            Requested(f) =>
                /\ Out[f].t = "cipher"
                /\ Out[f].pt = Str(heap, orig[f])

(* C3: fields_processed holds exactly the requested fields that are        *)
(* present in the record, in request order.                                *)
C3_FieldsProcessedPresentOnly ==
    Returned => Out["_privacy"].fields_processed = PresentRequested

(* C4: a record that already has a field '_privacy' makes process_data     *)
(* fail (whatever the error is called) instead of overwriting the field.   *)
C4_CollisionFails ==
    (pc = "done" /\ IsDict(data) /\ "_privacy" \in DOMAIN orig) =>
        result.kind = "raised"

(* C5: process_data on something that is no mapping, or on an empty        *)
(* mapping, fails (whatever the error is called) and returns no record.    *)
C5_InvalidInputFails ==
    (pc = "done" /\ (~IsDict(data) \/ DOMAIN orig = {})) => result.kind = "raised"

(* C6, as claimed: with an empty field list, at each of the eight levels,  *)
(* the output without its '_privacy' block equals the input record, and    *)
(* the block is present.  Stated for records that have no '_privacy' field *)
(* of their own.                                                           *)
C6_EmptyFieldsNoOp ==
    (Returned /\ fields = <<>> /\ "_privacy" \notin DOMAIN orig) =>
        ("_privacy" \in DOMAIN Out /\ Without(Out, "_privacy") = orig)

(* C6, amended: with an empty field list the '_privacy' block is present;  *)
(* at every level but Aggregated the output's other fields are the input's *)
(* other fields, unchanged; at Aggregated the output holds the block alone.*)
C6_EmptyFieldsAmended ==
    (Returned /\ fields = <<>>) =>
        /\ "_privacy" \in DOMAIN Out
        /\ level # "AGGREGATED" => Without(Out, "_privacy") = Without(orig, "_privacy")
        /\ level = "AGGREGATED" => DOMAIN Out = {"_privacy"}

\* an empty list on a record with fields, at Aggregated and at another level
C6_Witness ==
    /\ Returned
    /\ fields = <<>>
    /\ level \in {"AGGREGATED", "SYNTHETIC"}
    /\ DOMAIN orig # {}

(* C7: every record process_data returns, at each level, has a '_privacy'  *)
(* block with the entries level, processed_at and fields_processed, level  *)
(* being the string tag of the requested level.                            *)
C7_MetadataStamped ==
    Returned =>
        /\ "_privacy" \in DOMAIN Out
        /\ Out["_privacy"].t = "meta"
        /\ DOMAIN Out["_privacy"] = {"t", "level", "processed_at", "fields_processed"}
        /\ <<level, Out["_privacy"].level>> \in
              {<<"RAW", "raw">>, <<"TOKENIZED", "tokenized">>,
               <<"PSEUDONYMIZED", "pseudo">>, <<"REDACTED", "redacted">>,
               <<"GENERALIZED", "generalized">>, <<"DIFFERENTIAL", "differential">>,
               <<"AGGREGATED", "aggregated">>, <<"SYNTHETIC", "synthetic">>}

\* a record returned at Aggregated, where the transform returns a new dict
C7_Witness == Returned /\ level = "AGGREGATED" /\ fields # <<>> /\ DOMAIN orig # {}

(* C8, as claimed: any two Tokenized calls, on any records and field       *)
(* lists, map equal input values to equal tokens.                          *)
C8_TokenizeEqualityPreserving ==
    \A e1, e2 \in issued :
        (e1.level = "TOKENIZED" /\ e2.level = "TOKENIZED" /\ e1.vin = e2.vin)
            => e1.vout = e2.vout

(* C8, amended: any two Tokenized calls whose field lists name no field    *)
(* twice map equal input values to equal outputs, whatever the field name  *)
(* and whatever calls came before; the output of a truthy value is a token.*)
C8_TokenizeDeterministic ==
    \A e1, e2 \in issued :
        (e1.level = "TOKENIZED" /\ e2.level = "TOKENIZED" /\ ~e1.dup /\ ~e2.dup
            /\ e1.vin = e2.vin)
            => /\ e1.vout = e2.vout
               /\ Truthy(heap, e1.vin) => e1.vout.t = "tok"

\* the same truthy value tokenized under two field names in two calls
C8_Witness ==
    \E e1, e2 \in issued :
        /\ e1.level = "TOKENIZED" /\ e2.level = "TOKENIZED"
        /\ ~e1.dup /\ ~e2.dup
        /\ e1.call # e2.call /\ e1.field # e2.field
        /\ e1.vin = e2.vin /\ e1.vout.t = "tok"

(* C9: the same value pseudonymized under two distinct field names gets    *)
(* two different hash parts.                                               *)
C9_PseudonymFieldScoped ==
    \A e1, e2 \in issued :
        (e1.level = "PSEUDONYMIZED" /\ e2.level = "PSEUDONYMIZED"
            /\ e1.field # e2.field /\ e1.vin = e2.vin
            /\ e1.vout.t = "pseudo" /\ e2.vout.t = "pseudo")
            => e1.vout.hash # e2.vout.hash

(* C10: what Raw stores for a requested field decrypts, under the key, to  *)
(* the string form of the value; tampered with, or under another key, it   *)
(* is rejected.  Stated for a first call, a list without repeats and       *)
(* fields other than the metadata's own name.                              *)
C10_EncryptRoundTrip ==
    (Returned /\ level = "RAW" /\ feeds = 0 /\ ~HasDup(fields)) =>
        \A f \in DOMAIN orig \ {"_privacy"} :
            Requested(f) =>
                /\ FernetDecrypt(key, Out[f]) = [ok |-> TRUE, pt |-> Str(heap, orig[f])]
                /\ ~FernetDecrypt(key, Tamper(Out[f])).ok
                /\ ~FernetDecrypt(OtherKey, Out[f]).ok

(* C11: Redact is idempotent and value-blind.  Every requested field the   *)
(* record has holds "[REDACTED]" in the output, whatever it held before;   *)
(* and redacting the returned record again with the same list returns the  *)
(* same fields with the same values (the '_privacy' block, which           *)
(* process_data stamps anew on every call, is left out of the comparison). *)
C11_RedactIdempotent ==
    (Returned /\ level = "REDACTED") =>
        /\ \A f \in DOMAIN orig \ {"_privacy"} :
              Out[f] = IF Requested(f) THEN RedactedMarker ELSE orig[f]
        /\ feeds > 0 => Without(Out, "_privacy") = Without(orig, "_privacy")

\* a redacted record was redacted again, a requested field of it among them
C11_Witness ==
    /\ Returned
    /\ level = "REDACTED"
    /\ feeds > 0
    /\ \E f \in DOMAIN orig \ {"_privacy"} : Requested(f) /\ Out[f] = RedactedMarker

(* C12: at Tokenized, on a record whose requested fields hold pairwise     *)
(* distinct values, every requested field is replaced by a token ("TOK_"   *)
(* and the hex digest), the tokens of distinct values are distinct, and    *)
(* fields_processed is the requested list in request order.  Stated for a  *)
(* first call, a list without repeats, all of whose fields the record has, *)
(* and fields other than the metadata's own name.                          *)
C12_TokenizeDistinctValues ==
    (/\ Returned /\ level = "TOKENIZED" /\ feeds = 0
     /\ ~HasDup(fields) /\ ~Requested("_privacy")
     /\ \A f \in FieldNames : Requested(f) => f \in DOMAIN orig
     /\ \A f, g \in DOMAIN orig :
           (Requested(f) /\ Requested(g) /\ f # g) => orig[f] # orig[g])
    =>
        /\ \A f \in DOMAIN orig : Requested(f) => Out[f].t = "tok"
        /\ \A f, g \in DOMAIN orig :
              (Requested(f) /\ Requested(g) /\ f # g) => Out[f] # Out[g]
        /\ Out["_privacy"].fields_processed = fields

(* C13: Generalize contains the failure of a rule.  When the rule of a     *)
(* requested field raises on the field's value, the field becomes          *)
(* "GENERALIZATION_ERROR", process_data returns, and every other requested *)
(* field that follows it in the list still holds what its own rule makes   *)
(* of its value.  (A field the list names once: a rule applied twice to    *)
(* the same field works on its own earlier result.)                        *)
C13_GeneralizeContainsFailure ==
    (pc = "done" /\ level = "GENERALIZED" /\ IsDict(data)) =>
        /\ result.kind = "returned"
        /\ \A i \in 1..Len(fields) :
              RuleFails(fields[i]) =>
                 /\ Out[fields[i]] = GeneralizationError
                 /\ \A j \in (i + 1)..Len(fields) :
                       (/\ fields[j] # fields[i]
                        /\ Occurrences(fields[j]) = 1
                        /\ RuleApplies(fields[j]))
                       => Out[fields[j]] =
                             IF RuleFails(fields[j]) THEN GeneralizationError
                             ELSE ApplyRule(fields[j], orig[fields[j]]).v

\* a rule failed on the first field of the list and the rule of the second
\* field replaced the second field's value
C13_Witness ==
    /\ Returned
    /\ level = "GENERALIZED"
    /\ Len(fields) = 2
    /\ RuleFails(fields[1])
    /\ Out[fields[1]] = GeneralizationError
    /\ RuleApplies(fields[2])
    /\ ~RuleFails(fields[2])
    /\ Out[fields[2]] \notin {orig[fields[2]], GeneralizationError}

(* C14: when the failure of a field was recovered locally (a rule raised   *)
(* and the field became "GENERALIZATION_ERROR"), the '_privacy' block of   *)
(* the returned record records a warning: it holds an entry besides level, *)
(* processed_at and fields_processed.                                      *)
C14_FailureRecordsWarning ==
    (/\ Returned /\ level = "GENERALIZED"
     /\ \E f \in DOMAIN orig : Requested(f) /\ RuleFails(f))
    => DOMAIN Out["_privacy"] \ {"t"} # MetadataKeys

(* C15: a failure of process_data that is none of the named ones (the      *)
(* argument is a dict, so it is no input error) reaches the caller as a    *)
(* ProcessingError, and the failing call returns no record.                *)
C15_OtherFailureWrapped ==
    (pc = "done" /\ result.kind = "raised" /\ IsDict(data)) =>
        /\ result.err = "ProcessingError"
        /\ "ref" \notin DOMAIN result

(* C16, as claimed: where the secret is missing the failure the caller     *)
(* gets is a MissingKeyError, and no call of a keyed transform runs on a   *)
(* processor whose key is empty or missing.                                *)
C16_MissingKeyError ==
    /\ pc = "unbuilt" => result.err = "MissingKeyError"
    /\ pc \in {"called", "done"} => key # ""

(* C16, amended: it is the constructor that refuses a missing secret, with *)
(* a ValueError, and then there is no processor; so every call of Encrypt, *)
(* Tokenize or Pseudonymize runs on a processor with a non-empty key, and  *)
(* every ciphertext, token and pseudonym returned was made with that key.  *)
C16_ConstructorRefusesMissingKey ==
    /\ pc = "unbuilt" => (result = [kind |-> "raised", err |-> "ValueError"] /\ key = "")
    /\ pc \in {"idle", "called", "done"} => key # ""
    /\ Returned =>
          \A f \in DOMAIN Out \ {"_privacy"} :
             Out[f].t \in {"cipher", "tok", "pseudo"} =>
                (KeyOf(Out[f]) = key /\ KeyOf(Out[f]) # "")

\* the constructor was called without a secret and raised
C16_Witness ==
    /\ pc = "unbuilt"
    /\ result.kind = "raised"
    /\ key = ""

(* C17: at Generalized a requested field that has no rule keeps its value, *)
(* and a requested field that has a rule (one its rule accepts, named once *)
(* in the list) holds the rule's result: the decade of an age, the ten-    *)
(* thousand band of an income, the part of a location before the comma.    *)
C17_GeneralizeByRule ==
    (Returned /\ level = "GENERALIZED") =>
        \A f \in DOMAIN orig :
            Requested(f) =>
               /\ f \notin GeneralizationRuleFields => Out[f] = orig[f]
               /\ (RuleApplies(f) /\ ~RuleFails(f) /\ Occurrences(f) = 1) =>
                     /\ Out[f] = ApplyRule(f, orig[f]).v
                     /\ (f = "age" /\ orig[f] = PyInt(42)) => Out[f] = PyStr("40-49")
                     /\ (f = "income" /\ orig[f] = PyInt(55000)) =>
                           Out[f] = PyStr("50000-59999")
                     /\ (f = "location" /\ orig[f] = PyStr("Paris,France")) =>
                           Out[f] = PyStr("Paris")

\* a list that names a field without a rule and a field with one, both in the
\* record: the first kept its value, the second has its rule's result
C17_Witness ==
    /\ Returned
    /\ level = "GENERALIZED"
    /\ fields = <<"email", "age">>
    /\ DOMAIN orig = {"email", "age"}
    /\ Out["email"] = orig["email"]
    /\ Out["age"] = PyStr("40-49")

(* C18: at Aggregated the returned record has exactly one entry            *)
(* '<field>_summary' for each requested field the record has, and          *)
(* '_privacy'; none of the record's own entries is carried over.  The      *)
(* summary of a numeric value v (int, float, and bool, which Python counts *)
(* as int) is {type: numeric, count: 1, sum: v, avg: v}; that of any other *)
(* value is {type: categorical, categories: {str(v): 1}}.                  *)
C18_AggregateSummaries ==
    (Returned /\ level = "AGGREGATED") =>
        /\ DOMAIN Out =
              {f \o "_summary" : f \in {g \in DOMAIN orig : Requested(g)}}
                 \cup {"_privacy"}
        /\ \A k \in DOMAIN Out \ {"_privacy"} : Out[k].t = "summary"
        /\ \A f \in DOMAIN orig :
              Requested(f) =>
                 Out[f \o "_summary"] =
                    IF orig[f].t \in {"int", "float", "bool"}
                    THEN [t |-> "summary", type |-> "numeric", count |-> 1,
                          sum |-> orig[f], avg |-> orig[f]]
                    ELSE [t |-> "summary", type |-> "categorical",
                          categories |-> [category |-> Str(heap, orig[f]), count |-> 1]]

\* a record with a number and a string, both requested and summarized, and a
\* record whose requested field is the only one of its two that is summarized
C18_Witness ==
    /\ Returned
    /\ level = "AGGREGATED"
    /\ DOMAIN orig = {"email", "age"}
    /\ orig["age"] = PyInt(42)
    /\ orig["email"] = PyStr("a@b.com")
    /\ \/ /\ fields = <<"email", "age">>
          /\ Out["age_summary"].type = "numeric"
          /\ Out["email_summary"].type = "categorical"
       \/ /\ fields = <<"age">>
          /\ DOMAIN Out = {"age_summary", "_privacy"}

(* C19: at Differential a requested field whose value is no number (a      *)
(* string, a boolean, a nested mapping, null) is returned unchanged; only  *)
(* numbers get noise.                                                      *)
C19_DifferentialSkipsNonNumeric ==
    (Returned /\ level = "DIFFERENTIAL") =>
        \A f \in DOMAIN orig \ {"_privacy"} :
            (Requested(f) /\ orig[f].t \in {"str", "bool", "ref", "none"}) =>
                Out[f] = orig[f]

(* C20: a requested field the record does not have is skipped in silence   *)
(* at each of the eight levels: the call returns, and the returned record  *)
(* has no entry under that name and none under '<field>_summary'.  (The    *)
(* name '_privacy' is left out: the block is stamped under it on every     *)
(* call.)                                                                  *)
C20_AbsentFieldSkipped ==
    (/\ pc = "done" /\ IsDict(data) /\ level \in Levels
     /\ \E f \in FieldNames : Requested(f) /\ f \notin DOMAIN orig)
    =>
        /\ result.kind = "returned"
        /\ \A f \in FieldNames \ {"_privacy"} :
              (Requested(f) /\ f \notin DOMAIN orig) =>
                 /\ f \notin DOMAIN Out
                 /\ (f \o "_summary") \notin DOMAIN Out

\* a list that names a field the record has and one it has not: the call
\* returned, the first is processed, the second has no entry
C20_Witness ==
    /\ Returned
    /\ level \in Levels
    /\ fields = <<"email", "age">>
    /\ DOMAIN orig = {"age"}
    /\ "email" \notin DOMAIN Out
    /\ Out["_privacy"].fields_processed = <<"email", "age">>

(* C21: concurrent calls need no lock.  The processor's key is what the    *)
(* constructor set, whatever the calls do, and at the deterministic levels *)
(* (Tokenized, Pseudonymized, Redacted, Generalized, Aggregated) a call    *)
(* returns, under every interleaving with the other callers' calls, the    *)
(* record it returns when it runs alone; the caller's own record is as it  *)
(* was.                                                                    *)
C21_ConcurrentAsSequential ==
    /\ key \in Keys
    /\ \A t \in Tasks :
          (tasks # <<>> /\ tasks[t].pc = "done" /\ tasks[t].level \in DeterministicLevels) =>
              /\ heap[tasks[t].result.ref] = Alone(t)
              /\ heap[tasks[t].data] = tasks[t].input

\* two calls at deterministic levels ran interleaved (each had entered before
\* the other returned, both were submitted before either copied) and returned
C21_Witness ==
    /\ tasks # <<>>
    /\ \A t \in Tasks : tasks[t].pc = "done" /\ tasks[t].level \in DeterministicLevels
    /\ tasks["t1"].src > tasks["t2"].data
    /\ tasks["t2"].src > tasks["t1"].data
    /\ tasks["t1"].level = "AGGREGATED"
    /\ tasks["t2"].level = "TOKENIZED"

(* C22: the generator the noise is drawn from is not shared between        *)
(* concurrent calls: while two calls are both running, neither has read a  *)
(* generator state that the other has advanced.                            *)
C22_GeneratorNotShared ==
    \A t, u \in Tasks :
        (t # u /\ InFlight(t) /\ InFlight(u)) => ~ReadAfter(t, u)

(* C24: a POST /batch whose body is a valid batch without events is        *)
(* answered with 400 "Batch must contain events", not with 500, and the    *)
(* events collection is as it was when the request came in.                *)
C24_EmptyBatchIs400 ==
    (/\ response.kind = "sent"
     /\ ReadBatch(request).ok
     /\ request.payload.events = <<>>)
    =>
        /\ response.status = 400
        /\ response.detail = "Batch must contain events"
        /\ events = request.before

(* C25: input and output share no mutable nested value: after the caller   *)
(* has assigned to a key of a dict nested in the returned record (under a  *)
(* field the transform left alone), the caller's own record and the dict   *)
(* nested in it are as they were when the call began.                      *)
C25_NoNestedAliasing ==
    pc = "written" =>
        /\ heap[data.a] = orig
        /\ \A f \in DOMAIN orig : orig[f].t = "ref" => heap[orig[f].a] = NestedDict

----------------------------------------------------------------------------
(* PATCH /sessions/{session_id}: update_session of the sessions route and of
   the sessions repository. The collection is a database outside the program;
   a document's session_id is a Binary UUID when create_session of this
   repository stored it, and a str when something else did. A MongoDB filter
   matches a value of the same type only. *)

\* the forms a stored session_id can have
IdForms == {"binary", "str"}

\* the end times: none, the one a session was created with, the requests' ones
NoEndTime == "none"

\* the PATCH requests and the end_time each one carries
Patches == {"p1", "p2"}

EndTimeOf(p) == "end_" \o p

\* a document of the session: its end_time, and how often end_time was set
SessionDoc(e) == [end_time |-> e, writes |-> 0]

\* the collections the database can hold for the one session id
Collections ==
    UNION {[D -> {SessionDoc(NoEndTime), SessionDoc("end_0")}] : D \in SUBSET IdForms}

IdlePatch == [pc |-> "idle", end_time |-> NoEndTime, status |-> 0]

InitSess ==
    /\ CallerIdle
    /\ ConcIdle
    /\ BatchIdle
    /\ sessions \in Collections
    /\ patches = [p \in Patches |-> IdlePatch]
    /\ FactIdle
    /\ MongoIdle
    /\ RuleIdle

\* SessionsRepository.get_session: find_one with the Binary form of the id
GetSession(coll) ==
    IF "binary" \in DOMAIN coll THEN coll["binary"] ELSE PyNone

\* SessionsRepository.update_session: find_one_and_update with the id as the
\* route got it, a str; the collection after it and whether a document matched
UpdateSession(coll, e) ==
    IF "str" \in DOMAIN coll
    THEN [coll |-> [coll EXCEPT !["str"] = [end_time |-> e, writes |-> @.writes + 1]],
          err |-> "none"]
    ELSE [coll |-> coll, err |-> "ValueError"]

\* SessionsRepository.create_session: the document is stored with the uuid
\* strings of the keys ending in _id converted to Binary
CreateSession ==
    /\ "binary" \notin DOMAIN sessions
    /\ \E e \in {NoEndTime, "end_0"} :
         sessions' = [f \in DOMAIN sessions \cup {"binary"} |->
                        IF f = "binary" THEN SessionDoc(e) ELSE sessions[f]]
    /\ UNCHANGED <<patches, outsideSess>>

\* a PATCH request comes in; the handler runs up to its first await
Arrive(p) ==
    /\ patches[p].pc = "idle"
    /\ patches' = [patches EXCEPT ![p] = [pc |-> "get", end_time |-> EndTimeOf(p), status |-> 0]]
    /\ UNCHANGED <<sessions, outsideSess>>

\* the handler from the answer of get_session to its next await: 404 when no
\* session was found, 400 when the one found has an end_time
Check(p) ==
    /\ patches[p].pc = "get"
    /\ \E existing_session \in {GetSession(sessions)} :
         patches' = [patches EXCEPT ![p] =
            IF existing_session = PyNone
            THEN [@ EXCEPT !.pc = "done", !.status = 404]
            ELSE IF existing_session.end_time # NoEndTime
            THEN [@ EXCEPT !.pc = "done", !.status = 400]
            ELSE [@ EXCEPT !.pc = "update"]]
    /\ UNCHANGED <<sessions, outsideSess>>

\* the handler from update_session of the repository to its answer: the
\* ValueError of an update that matched nothing is answered with 422
Update(p) ==
    /\ patches[p].pc = "update"
    /\ \E u \in {UpdateSession(sessions, patches[p].end_time)} :
         /\ sessions' = u.coll
         /\ patches' = [patches EXCEPT ![p] =
              [@ EXCEPT !.pc = "done",
                        !.status = IF u.err = "ValueError" THEN 422 ELSE 200]]
    /\ UNCHANGED outsideSess

NextSess == CreateSession \/ \E p \in Patches : Arrive(p) \/ Check(p) \/ Update(p)

SpecSess == InitSess /\ [][NextSess]_vars

\* the requests that set end_time
Ended == {p \in Patches : patches[p].pc = "done" /\ patches[p].status = 200}

(* C26: for any interleaving of PATCH requests for the same session, end_time
   is written at most once: no document of the session has its end_time set
   twice, and no two requests both set end_time. *)
C26_EndTimeWrittenOnce ==
    /\ \A f \in DOMAIN sessions : sessions[f].writes <= 1
    /\ Cardinality(Ended) <= 1

----------------------------------------------------------------------------
(* The storage factory: get_storage and reset_storage of app.db.factory.
   Both are plain functions without an await, so a call is one step. *)

\* the values settings.STORAGE_TYPE takes: the two of StorageType, one of them
\* also capitalized, and two that are no StorageType
StorageTypes == {"supabase", "Supabase", "timescale", "mongodb", ""}

\* str.lower() on these values
Lower(s) == IF s = "Supabase" THEN "supabase" ELSE s

\* the values of the enum StorageType
StorageType == {"supabase", "timescale"}

\* the n-th storage constructed
Storage(n) == [t |-> "obj", cls |-> "SupabaseAnalytics", id |-> n]

NewLog(total) == [made |-> 0, got |-> {}, last |-> "none", invalid |-> FALSE, total |-> total]

InitFact ==
    /\ CallerIdle
    /\ ConcIdle
    /\ BatchIdle
    /\ SessIdle
    /\ storage_instance = PyNone
    /\ storage_type \in StorageTypes
    /\ storage_log = NewLog(0)
    /\ MongoIdle
    /\ RuleIdle

\* a faulty variant: no cache, every call constructs
GetStorageNoCache(cached, stype, fresh, ok) ==
    IF Lower(stype) \notin StorageType
    THEN [instance |-> cached, ret |-> PyNone, err |-> "ValueError", made |-> 0]
    ELSE IF Lower(stype) = "supabase"
    THEN IF ok
         THEN [instance |-> fresh, ret |-> fresh, err |-> "none", made |-> 1]
         ELSE [instance |-> cached, ret |-> PyNone, err |-> "Exception", made |-> 0]
    ELSE [instance |-> cached, ret |-> PyNone, err |-> "TypeError", made |-> 0]

(* get_storage with _storage_instance = cached and STORAGE_TYPE = stype: the
   new _storage_instance, what is returned or raised, and how many storages
   were constructed. fresh is the storage SupabaseAnalytics() gives when its
   create_client succeeds (ok). TimescaleAnalytics() raises TypeError: its
   __init__ wants a session, and the class leaves store_events,
   get_aggregates and healthcheck abstract. *)
GetStorageCall(cached, stype, fresh, ok) ==
    IF cached # PyNone
    THEN [instance |-> cached, ret |-> cached, err |-> "none", made |-> 0]
    ELSE IF Lower(stype) \notin StorageType
    THEN [instance |-> cached, ret |-> PyNone, err |-> "ValueError", made |-> 0]
    ELSE IF Lower(stype) = "supabase"
    THEN IF ok
         THEN [instance |-> fresh, ret |-> fresh, err |-> "none", made |-> 1]
         ELSE [instance |-> cached, ret |-> PyNone, err |-> "Exception", made |-> 0]
    ELSE [instance |-> cached, ret |-> PyNone, err |-> "TypeError", made |-> 0]

GetStorage ==
    /\ \E ok \in BOOLEAN :
       \E r \in {GetStorageCall(storage_instance, storage_type,
                                Storage(storage_log.total + 1), ok)} :
         /\ storage_log.total + r.made <= MaxInstances
         /\ storage_instance' = r.instance
         /\ storage_log' =
              [made |-> storage_log.made + r.made,
               got |-> storage_log.got \cup (IF r.err = "none" THEN {r.ret} ELSE {}),
               last |-> IF r.err = "none" THEN "returned" ELSE r.err,
               invalid |-> storage_log.invalid \/ r.err = "ValueError",
               total |-> storage_log.total + r.made]
    /\ UNCHANGED <<storage_type, outsideFact>>

ResetStorage ==
    /\ storage_log.last # "none"
    /\ storage_instance' = PyNone
    /\ storage_log' = NewLog(storage_log.total)
    /\ UNCHANGED <<storage_type, outsideFact>>

\* the deployment's STORAGE_TYPE is changed
Configure ==
    /\ \E t \in StorageTypes \ {storage_type} : storage_type' = t
    /\ UNCHANGED <<storage_instance, storage_log, outsideFact>>

NextFact == GetStorage \/ ResetStorage \/ Configure

SpecFact == InitFact /\ [][NextFact]_vars

(* C27: between two resets all get_storage calls return the same storage, the
   cached one, and at most one storage is constructed; after a call that
   failed on an invalid storage type the cache is unset, and a call that
   finds the cache unset and the type valid constructs. *)
C27_SingletonFactory ==
    /\ Cardinality(storage_log.got) <= 1
    /\ storage_log.got \subseteq {storage_instance}
    /\ storage_log.made <= 1
    /\ storage_log.last = "ValueError" => storage_instance = PyNone
    /\ storage_log.made = 0 => storage_instance = PyNone

\* after a reset and a call that failed on an invalid type, a second storage
\* has been constructed and returned, and returned again
C27_Witness ==
    /\ storage_log.invalid
    /\ storage_log.total = 2
    /\ storage_log.got = {Storage(2)}
    /\ storage_log.last = "returned"
    /\ storage_instance = Storage(2)

----------------------------------------------------------------------------
(* MongoDB.connect_to_database: one step per stretch between awaits. An
   attempt creates the client, pings, sets self.db and creates the indexes;
   it fails when the ping or create_indexes raises. *)

\* the values of retry_delay
RetryDelays == {1, 5}

\* how an attempt ends
Outcomes == {"connected", "ping failed", "indexes failed"}

Failures == Outcomes \ {"connected"}

InitMongo ==
    /\ CallerIdle
    /\ ConcIdle
    /\ BatchIdle
    /\ SessIdle
    /\ FactIdle
    /\ mongo = [client |-> FALSE, connected |-> FALSE]
    /\ connect = [pc |-> "idle"]
    /\ RuleIdle

\* range(max_retries)
Range(n) == 0 .. (n - 1)

\* the call: the for statement takes the first value of the range, or ends
\* the function when the range is empty
ConnectToDatabase ==
    /\ connect.pc = "idle"
    /\ \E max_retries \in 0 .. MaxRetries, retry_delay \in RetryDelays :
         connect' = [pc |-> IF Range(max_retries) = {} THEN "returned" ELSE "attempt",
                     max_retries |-> max_retries, retry_delay |-> retry_delay,
                     attempt |-> 0, log |-> <<>>, slept |-> 0, err |-> "none"]
    /\ UNCHANGED <<mongo, outsideMongo>>

\* one pass of the loop up to its return, its raise or its sleep
Attempt ==
    /\ connect.pc = "attempt"
    /\ \E outcome \in Outcomes :
         /\ mongo' = [client |-> TRUE, connected |-> outcome # "ping failed"]
         /\ connect' = [connect EXCEPT
              !.log = Append(@, outcome),
              !.pc = IF outcome = "connected" THEN "returned"
                     ELSE IF connect.attempt = connect.max_retries - 1 THEN "raised"
                     ELSE "sleep",
              !.err = IF outcome # "connected" /\ connect.attempt = connect.max_retries - 1
                      THEN outcome ELSE "none"]
    /\ UNCHANGED outsideMongo

\* asyncio.sleep(retry_delay) is over; the for statement takes the next value
Sleep ==
    /\ connect.pc = "sleep"
    /\ connect' = [connect EXCEPT
         !.log = Append(@, "sleep"),
         !.slept = @ + connect.retry_delay,
         !.attempt = @ + 1,
         !.pc = IF connect.attempt + 1 \in Range(connect.max_retries)
                THEN "attempt" ELSE "returned"]
    /\ UNCHANGED <<mongo, outsideMongo>>

NextMongo == ConnectToDatabase \/ Attempt \/ Sleep

SpecMongo == InitMongo /\ [][NextMongo]_vars

\* the attempts made so far
Attempts == {i \in DOMAIN connect.log : connect.log[i] \in Outcomes}

(* C28: connect_to_database makes at most max_retries attempts, stops at the
   first that succeeds, sleeps retry_delay only between failed attempts,
   raises the last error after the max_retries-th failure, and for every
   max_retries >= 0 never returns normally without an established
   connection. *)
C28_ConnectsOrRaises ==
    connect.pc # "idle" =>
      /\ Cardinality(Attempts) <= connect.max_retries
      /\ \A i \in DOMAIN connect.log :
           /\ connect.log[i] = "connected" => i = Len(connect.log)
           /\ connect.log[i] = "sleep" =>
                /\ i > 1 /\ connect.log[i - 1] \in Failures
                /\ i = Len(connect.log) => connect.pc = "attempt"
      /\ connect.slept = connect.retry_delay * (Len(connect.log) - Cardinality(Attempts))
      /\ connect.pc = "raised" =>
           /\ Cardinality(Attempts) = connect.max_retries
           /\ connect.err = connect.log[Len(connect.log)]
      /\ connect.pc = "returned" => mongo.connected

----------------------------------------------------------------------------
(* C29: at every level except Aggregated the record process_data returns
   has exactly the input's keys plus '_privacy', and every field of the
   input that is not in the requested list has its input value. *)
C29_FrameNonRequested ==
    (Returned /\ level # "AGGREGATED") =>
        /\ DOMAIN Out = DOMAIN orig \cup {"_privacy"}
        /\ \A f \in DOMAIN orig : ~Requested(f) => Out[f] = orig[f]

----------------------------------------------------------------------------
(* The default generalization rules of 'age' and 'income' as functions of
   an integer: each step applies one of them to one value. *)

AgeInputs == (0 - MaxAge) .. MaxAge

\* the incomes at and next to every multiple of 250 up to 250 * MaxAge: both
\* ends of each bucket of 10000 are among them
IncomeInputs == {250 * a + d : a \in AgeInputs, d \in {0 - 1, 0, 1}}

InitRule ==
    /\ CallerIdle
    /\ ConcIdle
    /\ BatchIdle
    /\ SessIdle
    /\ FactIdle
    /\ MongoIdle
    /\ bucket = [field |-> "none"]

\* generalization_rules[field](x)
Generalize(field, x) ==
    /\ bucket' = [field |-> field, x |-> x, label |-> ApplyRule(field, PyInt(x))]
    /\ UNCHANGED outsideRule

GeneralizeAge == \E x \in AgeInputs : Generalize("age", x)

GeneralizeIncome == \E x \in IncomeInputs : Generalize("income", x)

NextRule == GeneralizeAge \/ GeneralizeIncome

SpecRule == InitRule /\ [][NextRule]_vars

\* the width of the field's buckets
Width(field) == IF field = "age" THEN 10 ELSE 10000

\* the multiples of w among which the bucket of x lies
Multiples(w, x) == {w * q : q \in ((0 - x) - 1) .. (x + 1) \cup (x - 1) .. ((0 - x) + 1)}

(* C30: for every integer x the rule of 'age' (of 'income') returns the
   label "lo-hi" where lo is the multiple of 10 (of 10000) with
   lo <= x <= hi and hi = lo + 9 (lo + 9999), for negative x too; there is
   one such lo, so the label is a function of the value. *)
C30_BucketsIntegers ==
    bucket.field # "none" =>
        LET w == Width(bucket.field)
            x == bucket.x
        IN /\ bucket.label.ok
           /\ \E lo \in Multiples(w, x) :
                /\ lo <= x
                /\ x <= lo + (w - 1)
                /\ bucket.label.v = PyStr(IntToStr(lo) \o "-" \o IntToStr(lo + (w - 1)))
           /\ Cardinality({lo \in Multiples(w, x) : lo <= x /\ x <= lo + (w - 1)}) = 1

\* a negative age that is no multiple of 10, in its bucket below zero
C30_Witness ==
    /\ bucket.field = "age"
    /\ bucket.x = 0 - 5
    /\ bucket.label.v = PyStr("-10--1")

====
